---------------------------- MODULE Spec2Model ----------------------------
(***************************************************************************)
(* A model of the stand-alone epub renamer (src/ep_rename.py).             *)
(*                                                                         *)
(* Strings are tuples of one-character strings, so that strip() and the    *)
(* regular-expression substitutions of clean_fname are computed character  *)
(* by character.  An optional value (Python's None) is a tuple of length   *)
(* 0 or 1: None == << >>, Some(s) == <<s>>.                                *)
(*                                                                         *)
(* Three specifications share the module:                                  *)
(*   SpecScan   the loop of _find_author_from_dom over one document,       *)
(*   SpecMeta   get_epub_metadata applied to one archive,                  *)
(*   Spec       the __main__ walk over one directory (process_file).       *)
(***************************************************************************)
EXTENDS Integers, Sequences, FiniteSets, TLC

VARIABLES
    \* _find_author_from_dom
    xmldoc,            \* the secondary document handed to the scan
    tags,              \* what the generator iterate_all_tags has still to yield
    found_author_tag,  \* the "author section" flag
    authors,           \* the list built so far
    scan_pc,           \* "idle" | "loop" | "done"
    \* get_epub_metadata
    archive,           \* the container file handed to get_epub_metadata
    meta,              \* None, or Some(outcome of the call)
    \* __main__
    dir,               \* the directory: file name -> file content (an archive)
    fnames,            \* the candidates of the current os.walk listing
    idx,               \* position of the for loop in fnames
    printed,           \* lines written to stdout, as <<old, new>>
    open_handles,      \* ZipFile objects opened and not yet closed
    run,               \* how many times the program was started
    pc                 \* "idle" | "walk" | "loop" | "done"

scanVars == <<xmldoc, tags, found_author_tag, authors, scan_pc>>
metaVars == <<archive, meta>>
mainVars == <<dir, fnames, idx, printed, open_handles, run, pc>>
vars == <<scanVars, metaVars, mainVars>>

---------------------------------------------------------------------------
(* Bounds of the model *)

MaxNodes == 3      \* elements of a generated secondary document
MaxTags == 3       \* metadata elements of a generated package descriptor
MaxFiles == 2      \* files of the walked directory
MaxRuns == 2       \* starts of the program over the same directory

---------------------------------------------------------------------------
(* Strings *)

None == << >>
Some(v) == <<v>>

Whitespace == {" ", "\t", "\n"}

\* str.strip(): leading and trailing whitespace removed
RECURSIVE lstrip(_)
lstrip(s) ==
    IF s # << >> /\ Head(s) \in Whitespace THEN lstrip(Tail(s)) ELSE s

RECURSIVE rstrip(_)
rstrip(s) ==
    IF s # << >> /\ s[Len(s)] \in Whitespace
    THEN rstrip(SubSeq(s, 1, Len(s) - 1))
    ELSE s

strip(s) == rstrip(lstrip(s))

\* the elements of a finite set of integers in increasing order
RECURSIVE SortedSeq(_)
SortedSeq(S) ==
    IF S = {} THEN << >>
    ELSE LET m == CHOOSE x \in S : \A y \in S : x <= y
         IN  <<m>> \o SortedSeq(S \ {m})

S_Author == <<"A", "u", "t", "h", "o", "r">>
S_Authors == <<"A", "u", "t", "h", "o", "r", "s">>

---------------------------------------------------------------------------
(* The DOM of the secondary document                                       *)
(*                                                                         *)
(* A document has elements 1..n; parent[i] < i is the element's parent (0  *)
(* is the Document node) and siblings are ordered by number.  Of an        *)
(* element, el[i].nodeName is its tag and el[i].data is the data of its    *)
(* first child when that child is a text node, << >> otherwise (the parser *)
(* never builds an empty text node).  Text after the first element child   *)
(* is never read by the code and is left out.                              *)

NoDoc == [n |-> 0, parent |-> << >>, el |-> << >>]

\* node.childNodes restricted to element nodes, in sibling order
ElementChildren(doc, node) ==
    SortedSeq({i \in 1..doc.n : doc.parent[i] = node})

\* bool(tag.childNodes)
HasChildNodes(doc, i) ==
    doc.el[i].data # << >> \/ ElementChildren(doc, i) # << >>

\* tag.firstChild.nodeType == TEXT_NODE
FirstChildIsText(doc, i) == doc.el[i].data # << >>

\* a mutant of iterate_all_tags: the children of a node before the node
RECURSIVE iterate_all_tags_postorder(_, _)
iterate_all_tags_postorder(doc, root) ==
    LET kids == ElementChildren(doc, root)
        F[k \in 0..Len(kids)] ==
            IF k = 0 THEN << >>
            ELSE F[k - 1] \o iterate_all_tags_postorder(doc, kids[k]) \o <<kids[k]>>
    IN  F[Len(kids)]

\* iterate_all_tags: each element child, then (recursively) its subtree
RECURSIVE iterate_all_tags(_, _)
iterate_all_tags(doc, root) ==
    LET kids == ElementChildren(doc, root)
        F[k \in 0..Len(kids)] ==
            IF k = 0 THEN << >>
            ELSE F[k - 1] \o <<kids[k]>> \o iterate_all_tags(doc, kids[k])
    IN  F[Len(kids)]

\* the test of lines 75-80 that starts the author section
IsAuthorTag(doc, i) ==
    /\ doc.el[i].nodeName = "strong"
    /\ HasChildNodes(doc, i)
    /\ FirstChildIsText(doc, i)
    /\ doc.el[i].data \in {S_Author, S_Authors}

\* the test of lines 88-92
IsTextParagraph(doc, i) ==
    /\ doc.el[i].nodeName = "p"
    /\ HasChildNodes(doc, i)
    /\ FirstChildIsText(doc, i)

\* One iteration of the for loop of _find_author_from_dom on the scan state
\* s = [tags, found, authors, done]; an exhausted generator ends the loop.
ScanIter(doc, s) ==
    IF s.tags = << >> THEN [s EXCEPT !.done = TRUE]
    ELSE LET tag == Head(s.tags)
             rest == Tail(s.tags)
         IN  IF ~s.found
             THEN [s EXCEPT !.tags = rest,
                            !.found = IsAuthorTag(doc, tag)]
             ELSE IF doc.el[tag].nodeName = "span"
                  THEN [s EXCEPT !.done = TRUE]
                  ELSE LET data == strip(doc.el[tag].data)
                       IN  IF IsTextParagraph(doc, tag) /\ data # << >>
                           THEN [s EXCEPT !.tags = rest,
                                          !.authors = Append(@, data)]
                           ELSE [s EXCEPT !.tags = rest]

ScanStart(doc) ==
    [tags |-> iterate_all_tags(doc, 0), found |-> FALSE,
     authors |-> << >>, done |-> FALSE]

RECURSIVE ScanRun(_, _)
ScanRun(doc, s) == IF s.done THEN s.authors ELSE ScanRun(doc, ScanIter(doc, s))

\* _find_author_from_dom as a function of the document
_find_author_from_dom(doc) == ScanRun(doc, ScanStart(doc))

---------------------------------------------------------------------------
(* The package descriptor and the Dublin Core lookups                      *)
(*                                                                         *)
(* A descriptor is the sequence, in document order, of its metadata        *)
(* elements.  Of an element, tagName is its qualified name, first says     *)
(* what its first child is ("none": no child, "element", "text") and data  *)
(* is the text of a first child that is a text node.                       *)

\* firstChild.nodeValue: the data of a text node, None for an element
nodeValue(e) == IF e.first = "text" THEN Some(e.data) ELSE None

\* opf_xmldoc.getElementsByTagName(name)
getElementsByTagName(opf, name) == SelectSeq(opf, LAMBDA e : e.tagName = name)

\* a mutant of dc_tag_name: the prefix forgotten
dc_tag_name_unprefixed(name) == name

\* f"dc:{name}"
dc_tag_name(name) ==
    CASE name = "title" -> "dc:title"
      [] name = "creator" -> "dc:creator"
      [] OTHER -> name

\* the list comprehension of lines 25-29 and 40-44 over the elements found
node_values(found) ==
    [k \in 1..Len(found) |-> nodeValue(found[k])]

\* The body of one of the two try blocks of __discover_dc, given the elements
\* found under the tag name.  With first_only, [0] on an empty list raises
\* IndexError, which is swallowed and leaves value as it was (prev).
try_block(found, first_only, prev) ==
    IF first_only
    THEN IF found = << >> THEN prev
         ELSE IF found[1].first # "none" THEN nodeValue(found[1])
              ELSE prev
    ELSE node_values(SelectSeq(found, LAMBDA e : e.first # "none"))

discover_pass(opf, tag_name, first_only, prev) ==
    try_block(getElementsByTagName(opf, tag_name), first_only, prev)

\* Python's "not value" for None, a string or a list
Falsy(value, first_only) ==
    IF first_only THEN value = None \/ value = Some(<< >>) ELSE value = << >>

\* a mutant of strip_value: the text returned as stored
strip_value_raw(v) == v

\* v.strip() of lines 49 and 51
strip_value(v) == strip(v)

\* lines 32-46: the lookup under the dc: name when the first gave nothing
retry_prefixed(opf, name, first_only, value) ==
    IF Falsy(value, first_only)
    THEN discover_pass(opf, dc_tag_name(name), first_only, value)
    ELSE value

\* lines 48-51: [exc, value].  value is an optional string with first_only
\* and a list of strings without; None.strip() raises AttributeError.
return_stripped(value, first_only) ==
    IF first_only
    THEN [exc |-> "none",
          value |-> IF Falsy(value, TRUE) THEN value
                    ELSE Some(strip_value(value[1]))]
    ELSE IF \E k \in 1..Len(value) : value[k] = None
         THEN [exc |-> "AttributeError", value |-> << >>]
         ELSE [exc |-> "none",
               value |-> [k \in 1..Len(value) |-> strip_value(value[k][1])]]

__discover_dc(opf, name, first_only) ==
    return_stripped(
        retry_prefixed(opf, name, first_only,
                       discover_pass(opf, name, first_only, None)),
        first_only)

_discover_title(opf) == __discover_dc(opf, "title", TRUE)

\* a mutant of unique_authors: a repeated author kept at its last occurrence
RECURSIVE unique_authors_keep_last(_)
unique_authors_keep_last(list) ==
    IF list = << >> THEN << >>
    ELSE LET rest == Tail(list)
         IN  IF \E k \in 1..Len(rest) : rest[k] = Head(list)
             THEN unique_authors_keep_last(rest)
             ELSE <<Head(list)>> \o unique_authors_keep_last(rest)

\* the loop of lines 111-114 on what is left of authors, with unique_authors
\* as built so far
RECURSIVE unique_loop(_, _)
unique_loop(list, unique) ==
    IF list = << >> THEN unique
    ELSE IF \E k \in 1..Len(unique) : unique[k] = Head(list)
         THEN unique_loop(Tail(list), unique)
         ELSE unique_loop(Tail(list), Append(unique, Head(list)))

unique_authors(list) == unique_loop(list, << >>)

\* The list _discover_authors has before it removes duplicates: the creator
\* tags, or the scan of the secondary document when there are none.
\* authors_html is None or Some(document).
authors_or_fallback(dc, authors_html) ==
    IF dc.exc # "none" THEN dc
    ELSE IF dc.value = << >> /\ authors_html # None
         THEN [exc |-> "none", value |-> _find_author_from_dom(authors_html[1])]
         ELSE dc

authors_found(opf, authors_html) ==
    authors_or_fallback(__discover_dc(opf, "creator", FALSE), authors_html)

\* lines 109-116 on the list found
deduplicated(found) ==
    IF found.exc # "none" THEN found
    ELSE [exc |-> "none", value |-> unique_authors(found.value)]

_discover_authors(opf, authors_html) ==
    deduplicated(authors_found(opf, authors_html))

---------------------------------------------------------------------------
(* The archive and get_epub_metadata                                       *)
(*                                                                         *)
(* Of an archive: is_zip is zipfile.is_zipfile; container is the state of  *)
(* META-INF/container.xml ("missing", "unparsable", "no_rootfile": parsed  *)
(* but without a rootfile element, "no_full_path": a rootfile without the  *)
(* attribute, "ok"); opf is the state of the entry full-path names         *)
(* ("missing", "unparsable", "ok") and opf_doc its descriptor; html is the *)
(* state of OEBPS/pr02.html and html_doc its document.                     *)

Raise(e) == [exc |-> e, title |-> None, authors |-> << >>]

\* lines 144-149: KeyError (no such entry) is swallowed, a parse error is not
authors_html_of(a) ==
    CASE a.html = "missing" -> [exc |-> "none", value |-> None]
      [] a.html = "unparsable" -> [exc |-> "ExpatError", value |-> None]
      [] OTHER -> [exc |-> "none", value |-> Some(a.html_doc)]

\* lines 151-154: the dict returned, title first, unless a lookup raises
metadata_dict(t, au) ==
    IF au.exc # "none" THEN Raise(au.exc)
    ELSE [exc |-> "none", title |-> t.value, authors |-> au.value]

\* lines 143-154, html being what reading OEBPS/pr02.html gave
metadata_with(opf, html) ==
    IF html.exc # "none" THEN Raise(html.exc)
    ELSE metadata_dict(_discover_title(opf), _discover_authors(opf, html.value))

\* get_epub_metadata: [exc, title, authors]; exc is "none" for a return
get_epub_metadata(a) ==
    IF ~a.is_zip THEN Raise("Exception")
    ELSE IF a.container = "missing" THEN Raise("KeyError")
    ELSE IF a.container = "unparsable" THEN Raise("ExpatError")
    ELSE IF a.container = "no_rootfile" THEN Raise("Exception")
    ELSE IF a.container = "no_full_path" THEN Raise("KeyError")
    ELSE IF a.opf = "missing" THEN Raise("KeyError")
    ELSE IF a.opf = "unparsable" THEN Raise("ExpatError")
    ELSE metadata_with(a.opf_doc, authors_html_of(a))

\* whether the call constructs a ZipFile (line 124); nothing in the function
\* closes it
OpensZipFile(a) == a.is_zip

---------------------------------------------------------------------------
(* Documents the scan is checked on *)

T_Jane == <<" ", "J", "\n">>
T_Bob == <<"B">>
T_Blank == <<" ", "\t">>

ElementKinds ==
    {[nodeName |-> "strong", data |-> S_Author],
     [nodeName |-> "strong", data |-> S_Authors],
     [nodeName |-> "strong", data |-> T_Bob],
     [nodeName |-> "strong", data |-> << >>],
     [nodeName |-> "p", data |-> T_Jane],
     [nodeName |-> "p", data |-> T_Bob],
     [nodeName |-> "p", data |-> T_Blank],
     [nodeName |-> "p", data |-> << >>],
     [nodeName |-> "span", data |-> << >>]}

\* the ways to hang n elements into a tree: parent[i] < i
Parents(n) == {f \in [1..n -> 0..(n - 1)] : \A i \in 1..n : f[i] < i}

\* doc is a document of n elements
IsDocOf(doc, n) ==
    \E p \in Parents(n), e \in [1..n -> ElementKinds] :
        doc = [n |-> n, parent |-> p, el |-> e]

\* <strong>Author</strong><p>Jane</p><span>..</span><p>Bob</p>
ExampleDoc ==
    [n |-> 4,
     parent |-> <<0, 0, 0, 0>>,
     el |-> <<[nodeName |-> "strong", data |-> S_Author],
              [nodeName |-> "p", data |-> T_Jane],
              [nodeName |-> "span", data |-> << >>],
              [nodeName |-> "p", data |-> T_Bob]>>]


---------------------------------------------------------------------------
(* SpecScan: _find_author_from_dom, one loop iteration per step *)

ScanIdle ==
    /\ xmldoc = NoDoc
    /\ tags = << >>
    /\ found_author_tag = FALSE
    /\ authors = << >>
    /\ scan_pc = "idle"

MetaIdle ==
    /\ archive = None
    /\ meta = None

MainIdle ==
    /\ dir = << >>
    /\ fnames = << >>
    /\ idx = 0
    /\ printed = << >>
    /\ open_handles = {}
    /\ run = 0
    /\ pc = "idle"

ScanInit ==
    /\ \/ \E n \in 1..MaxNodes : IsDocOf(xmldoc, n)
       \/ xmldoc = ExampleDoc
    /\ tags = iterate_all_tags(xmldoc, 0)
    /\ found_author_tag = FALSE
    /\ authors = << >>
    /\ scan_pc = "loop"
    /\ MetaIdle
    /\ MainIdle

\* the variables of the scan after an iteration that gave s
ScanState(s) ==
    /\ tags' = s.tags
    /\ found_author_tag' = s.found
    /\ authors' = s.authors
    /\ scan_pc' = IF s.done THEN "done" ELSE "loop"

\* one pass through the body of the for loop, or the loop's end
ScanStep ==
    /\ scan_pc = "loop"
    /\ ScanState(ScanIter(xmldoc, [tags |-> tags, found |-> found_author_tag,
                                   authors |-> authors, done |-> FALSE]))
    /\ UNCHANGED <<xmldoc, metaVars, mainVars>>

ScanNext == ScanStep

SpecScan == ScanInit /\ [][ScanNext]_vars

---------------------------------------------------------------------------
(* Document order, stated without the traversal: the path of an element is *)
(* the chain of elements from the top of the document down to it; a comes  *)
(* before b when a is a proper ancestor of b, or when, where the two paths *)
(* first differ, a's side is the earlier sibling.                          *)

RECURSIVE PathTo(_, _)
PathTo(doc, i) ==
    IF i = 0 THEN << >> ELSE Append(PathTo(doc, doc.parent[i]), i)

Before(doc, a, b) ==
    LET pa == PathTo(doc, a)
        pb == PathTo(doc, b)
    IN  \/ /\ Len(pa) < Len(pb)
           /\ SubSeq(pb, 1, Len(pa)) = pa
        \/ \E k \in 1..Len(pa) :
              /\ k <= Len(pb)
              /\ SubSeq(pa, 1, k - 1) = SubSeq(pb, 1, k - 1)
              /\ pa[k] < pb[k]

\* the elements of S in document order
RECURSIVE InDocOrder(_, _)
InDocOrder(doc, S) ==
    IF S = {} THEN << >>
    ELSE LET m == CHOOSE x \in S : \A y \in S \ {x} : Before(doc, x, y)
         IN  <<m>> \o InDocOrder(doc, S \ {m})

\* a strong element whose first child is the text Author or Authors
FirstChildMarkers(doc) ==
    {i \in 1..doc.n : /\ doc.el[i].nodeName = "strong"
                      /\ doc.el[i].data \in {S_Author, S_Authors}}

\* a strong element whose only child is the text Author or Authors
SoleChildMarkers(doc) ==
    {i \in FirstChildMarkers(doc) : ElementChildren(doc, i) = << >>}

\* The trimmed non-empty texts of the p elements whose first child is text
\* and that lie after the first marker and before the first span after it.
SectionTexts(doc, markers) ==
    IF markers = {} THEN << >>
    ELSE LET m == CHOOSE x \in markers :
                      \A y \in markers \ {x} : Before(doc, x, y)
             spans == {i \in 1..doc.n : /\ doc.el[i].nodeName = "span"
                                        /\ Before(doc, m, i)}
             inside == {i \in 1..doc.n :
                          /\ doc.el[i].nodeName = "p"
                          /\ strip(doc.el[i].data) # << >>
                          /\ Before(doc, m, i)
                          /\ \A sp \in spans : Before(doc, i, sp)}
             order == InDocOrder(doc, inside)
         IN  [k \in 1..Len(order) |-> strip(doc.el[order[k]].data)]

\* C1 (as amended): when the scan has ended, the list it built is exactly
\* the trimmed non-empty texts of the p elements (first child text) that lie,
\* in document order, after the first strong element whose FIRST child is the
\* text Author or Authors and before the first span after it; while it runs,
\* the list is a prefix of that.
C1_ScanFirstChildMarker ==
    LET want == SectionTexts(xmldoc, FirstChildMarkers(xmldoc))
    IN  /\ scan_pc = "loop" =>
              /\ Len(authors) <= Len(want)
              /\ authors = SubSeq(want, 1, Len(authors))
        /\ scan_pc = "done" => authors = want

\* C1 (as claimed): the same with the marker being the first strong element
\* whose SOLE child is the text Author or Authors.
C1_ScanSoleChildMarker ==
    scan_pc = "done" =>
        authors = SectionTexts(xmldoc, SoleChildMarkers(xmldoc))

\* The spec's example, scanned to its end: Jane is taken, the p after the
\* span is not.
C1_Witness ==
    /\ scan_pc = "done"
    /\ xmldoc = ExampleDoc
    /\ authors = <<<<"J">>>>
    /\ tags # << >>

---------------------------------------------------------------------------
(* SpecMeta: get_epub_metadata applied to one archive *)

T_Title == <<" ", "T", "\n">>
T_J == <<"J">>
T_K == <<"K">>

OpfElementKinds ==
    {[tagName |-> t, first |-> f, data |-> << >>] :
        t \in {"title", "dc:title", "creator", "dc:creator"},
        f \in {"none", "element"}}
    \cup {[tagName |-> t, first |-> "text", data |-> d] :
        t \in {"title", "dc:title"}, d \in {T_Title, T_Blank}}
    \cup {[tagName |-> t, first |-> "text", data |-> d] :
        t \in {"creator", "dc:creator"}, d \in {T_J, T_Jane, T_K}}


\* <strong>Authors</strong><p> J </p><p>K</p><p>J</p>
RepeatDoc ==
    [n |-> 4,
     parent |-> <<0, 0, 0, 0>>,
     el |-> <<[nodeName |-> "strong", data |-> S_Authors],
              [nodeName |-> "p", data |-> T_Jane],
              [nodeName |-> "p", data |-> T_K],
              [nodeName |-> "p", data |-> T_J]>>]

\* what OEBPS/pr02.html can be
HtmlVariants ==
    {[html |-> "missing", html_doc |-> NoDoc],
     [html |-> "unparsable", html_doc |-> NoDoc],
     [html |-> "ok", html_doc |-> ExampleDoc],
     [html |-> "ok", html_doc |-> RepeatDoc]}

Archive(is_zip, container, opf, opf_doc, h) ==
    [is_zip |-> is_zip, container |-> container, opf |-> opf,
     opf_doc |-> opf_doc, html |-> h.html, html_doc |-> h.html_doc]

NoHtml == [html |-> "missing", html_doc |-> NoDoc]

\* archives whose extraction fails before the descriptor is read
BrokenArchives ==
    {Archive(FALSE, "missing", "missing", << >>, NoHtml)}
    \cup {Archive(TRUE, c, "missing", << >>, NoHtml) :
            c \in {"missing", "unparsable", "no_rootfile", "no_full_path"}}
    \cup {Archive(TRUE, "ok", o, << >>, NoHtml) : o \in {"missing", "unparsable"}}

\* a is an archive whose descriptor has n metadata elements
IsBookOf(a, n) ==
    \E d \in [1..n -> OpfElementKinds], h \in HtmlVariants :
        a = Some(Archive(TRUE, "ok", "ok", d, h))

MetaInit ==
    /\ \/ \E n \in 0..MaxTags : IsBookOf(archive, n)
       \/ archive \in {Some(a) : a \in BrokenArchives}
    /\ meta = None
    /\ ScanIdle
    /\ MainIdle

\* the call get_epub_metadata(archive)
Extract ==
    /\ archive # None
    /\ meta = None
    /\ meta' = Some(get_epub_metadata(archive[1]))
    /\ UNCHANGED <<archive, scanVars, mainVars>>

MetaNext == Extract

SpecMeta == MetaInit /\ [][MetaNext]_vars

Returned == meta # None /\ meta[1].exc = "none"

\* the set of the elements of a sequence
Range(seq) == {seq[k] : k \in 1..Len(seq)}

\* the index of the first occurrence of v in seq
FirstIndex(seq, v) == CHOOSE k \in 1..Len(seq) :
                          seq[k] = v /\ \A j \in 1..(k - 1) : seq[j] # v

\* C2: the list _discover_authors returns has no value twice, has exactly the
\* values of the list found (creator tags, or fallback scan), and orders them
\* by their first occurrence in that list.
C2_DedupFirstOccurrence ==
    Returned =>
        LET html == authors_html_of(archive[1])
            input == authors_found(archive[1].opf_doc, html.value).value
            out == meta[1].authors
        IN  /\ \A i, j \in 1..Len(out) : i # j => out[i] # out[j]
            /\ Range(out) = Range(input)
            /\ \A i, j \in 1..Len(out) :
                  i < j => FirstIndex(input, out[i]) < FirstIndex(input, out[j])

\* three creators, the first two equal once trimmed, returned as two
C2_Witness ==
    /\ Returned
    /\ LET input == authors_found(archive[1].opf_doc, None).value
       IN  /\ Len(input) = 3
           /\ input[1] = input[2]
           /\ input[3] # input[1]
           /\ meta[1].authors = <<input[1], input[3]>>

\* a descriptor that carries metadata only under the dc: names
DcOnly(opf) == \A k \in 1..Len(opf) : opf[k].tagName \in {"dc:title", "dc:creator"}

\* the same descriptor with every dc:title / dc:creator under its bare name
BareName(t) == CASE t = "dc:title" -> "title"
                 [] t = "dc:creator" -> "creator"
                 [] OTHER -> t

Unprefixed(a) ==
    [a EXCEPT !.opf_doc = [k \in 1..Len(a.opf_doc) |->
                              [a.opf_doc[k] EXCEPT !.tagName = BareName(@)]]]

\* C3: for a descriptor with dc:title / dc:creator only, get_epub_metadata
\* gives what it gives for the descriptor with the same values, in the same
\* order, under title / creator.
C3_NamespaceTransparent ==
    (meta # None /\ DcOnly(archive[1].opf_doc)) =>
        meta[1] = get_epub_metadata(Unprefixed(archive[1]))

\* a dc-only descriptor from which a title and an author were returned
C3_Witness ==
    /\ Returned
    /\ DcOnly(archive[1].opf_doc)
    /\ meta[1].title # None
    /\ meta[1].authors # << >>

\* the first element of the descriptor named t, as a set of 0 or 1 element
FirstNamed(opf, t) ==
    {opf[k] : k \in {i \in 1..Len(opf) :
                        /\ opf[i].tagName = t
                        /\ \A j \in 1..(i - 1) : opf[j].tagName # t}}

\* s is t with whitespace added at its ends, and t has none at its ends
Trimmed(s, t) ==
    /\ t = << >> \/ (t[1] \notin Whitespace /\ t[Len(t)] \notin Whitespace)
    /\ \E i \in 0..Len(s) :
          /\ i + Len(t) <= Len(s)
          /\ SubSeq(s, i + 1, i + Len(t)) = t
          /\ \A k \in (1..i) \cup ((i + Len(t) + 1)..Len(s)) : s[k] \in Whitespace

\* C4: the title returned is the text of the first title tag when that tag
\* exists and has text, otherwise the text of the first dc:title tag, and
\* null when neither has text; a returned title is the stored text trimmed.
C4_TitleDiscovery ==
    Returned =>
        LET bare == {e \in FirstNamed(archive[1].opf_doc, "title") :
                        e.first = "text"}
            dc == {e \in FirstNamed(archive[1].opf_doc, "dc:title") :
                        e.first = "text"}
            from == IF bare # {} THEN bare ELSE dc
            title == meta[1].title
        IN  /\ from = {} <=> title = None
            /\ \A e \in from : Trimmed(e.data, title[1])

\* a first title tag without text, and the title taken, trimmed, from dc:title
C4_Witness ==
    /\ Returned
    /\ FirstNamed(archive[1].opf_doc, "title") # {}
    /\ \A e \in FirstNamed(archive[1].opf_doc, "title") : e.first # "text"
    /\ meta[1].title = Some(<<"T">>)

\* a descriptor in which at least one creator tag has text
HasCreatorText(opf) ==
    \E k \in 1..Len(opf) :
        opf[k].tagName \in {"creator", "dc:creator"} /\ opf[k].first = "text"

\* C10: with at least one creator tag that has text, the outcome of
\* get_epub_metadata is the same whatever OEBPS/pr02.html is.
C10_SecondaryFileOnlyFallback ==
    (meta # None /\ archive[1].opf = "ok"
        /\ HasCreatorText(archive[1].opf_doc)) =>
        \A h \in HtmlVariants :
            get_epub_metadata([archive[1] EXCEPT !.html = h.html,
                                                 !.html_doc = h.html_doc])
                = meta[1]

---------------------------------------------------------------------------
(* File names and clean_fname *)

UpperCase == <<"A", "B", "C", "D", "E", "F", "G", "H", "I", "J", "K", "L", "M",
               "N", "O", "P", "Q", "R", "S", "T", "U", "V", "W", "X", "Y", "Z">>
LowerCase == <<"a", "b", "c", "d", "e", "f", "g", "h", "i", "j", "k", "l", "m",
               "n", "o", "p", "q", "r", "s", "t", "u", "v", "w", "x", "y", "z">>
Digits == {"0", "1", "2", "3", "4", "5", "6", "7", "8", "9"}

\* \w of the regular expression
WordChars ==
    {UpperCase[k] : k \in 1..Len(UpperCase)}
    \cup {LowerCase[k] : k \in 1..Len(LowerCase)}
    \cup Digits \cup {"_"}

\* str.lower()
lower(s) ==
    [k \in 1..Len(s) |->
        IF \E u \in 1..Len(UpperCase) : UpperCase[u] = s[k]
        THEN LowerCase[CHOOSE u \in 1..Len(UpperCase) : UpperCase[u] = s[k]]
        ELSE s[k]]

\* str.endswith
endswith(s, suffix) ==
    /\ Len(suffix) <= Len(s)
    /\ SubSeq(s, Len(s) - Len(suffix) + 1, Len(s)) = suffix

S_epub == <<".", "e", "p", "u", "b">>
S_None == <<"N", "o", "n", "e">>
S_sep == <<" ", "-", " ">>

\* re.sub(r"\s+", " ", s): every run of whitespace becomes one space
RECURSIVE collapse_whitespace(_)
collapse_whitespace(s) ==
    IF s = << >> THEN << >>
    ELSE IF Head(s) \in Whitespace
         THEN <<" ">> \o collapse_whitespace(lstrip(s))
         ELSE <<Head(s)>> \o collapse_whitespace(Tail(s))

\* re.sub(r"(?u)[^-\w.\s]", "", s)
remove_other_chars(s) ==
    SelectSeq(s, LAMBDA c : c \in WordChars \cup {"-", "."} \cup Whitespace)

clean_fname(name) == remove_other_chars(strip(collapse_whitespace(name)))

\* line 174: the longest destination name before the extension is added
DestNameLimit == 254

\* lines 173-176, for a title (None or Some(text)) and an author; str(None)
\* is "None"
destname_of(title, author) ==
    LET name == clean_fname((IF title = None THEN S_None ELSE title[1])
                                \o S_sep \o author)
        cut == IF Len(name) > DestNameLimit
               THEN SubSeq(name, 1, DestNameLimit) ELSE name
    IN  cut \o S_epub

---------------------------------------------------------------------------
(* The directory and process_file                                          *)
(*                                                                         *)
(* A directory is a function from the names of its files to their content. *)
(* Names are compared exactly (a case-sensitive file system).              *)

\* a mutant of os_path_exists: the destination never found
os_path_exists_never(d, name) == FALSE

\* os.path.exists(os.path.join(dirpath, name))
os_path_exists(d, name) == name \in DOMAIN d

\* a mutant of os_rename: the file copied, the original left in place
os_rename_keeps_source(d, old, new) ==
    [n \in DOMAIN d \cup {new} |-> IF n = new THEN d[old] ELSE d[n]]

\* os.rename within one directory; an existing new is replaced
os_rename(d, old, new) ==
    [n \in (DOMAIN d \ {old}) \cup {new} |-> IF n = new THEN d[old] ELSE d[n]]

\* process_file(fname, dirpath) in directory d with output out so far:
\* [exc, dir, printed, opened].  opened tells whether a ZipFile was built.
\* lines 177-179
rename_unless_exists(same, fname, destname) ==
    IF ~os_path_exists(same.dir, destname)
    THEN [same EXCEPT !.dir = os_rename(@, fname, destname),
                      !.printed = Append(@, <<fname, destname>>)]
    ELSE same

\* lines 171-179 for the metadata m; same is the result that changes nothing
process_meta(same, fname, m) ==
    IF m.exc # "none" THEN [same EXCEPT !.exc = m.exc]
    ELSE IF m.authors = << >> THEN [same EXCEPT !.exc = "IndexError"]
    ELSE rename_unless_exists(same, fname, destname_of(m.title, m.authors[1]))

\* a file that is not there is no zip file (is_zipfile answers False)
metadata_of_file(d, fname) ==
    IF fname \in DOMAIN d THEN get_epub_metadata(d[fname]) ELSE Raise("Exception")

process_file(d, out, fname) ==
    process_meta([exc |-> "none", dir |-> d, printed |-> out,
                  opened |-> fname \in DOMAIN d /\ OpensZipFile(d[fname])],
                 fname, metadata_of_file(d, fname))

\* a mutant of caught_by_main: only the errors get_epub_metadata raises itself
caught_by_main_narrow(exc) == exc = "Exception"

\* "except Exception" of line 187: every error raised here derives from it
caught_by_main(exc) ==
    exc \in {"Exception", "KeyError", "IndexError", "ExpatError",
             "AttributeError", "OSError"}

\* the filter of line 184
is_candidate(f) == endswith(lower(f), S_epub)

---------------------------------------------------------------------------
(* Spec: the walk of __main__ over one directory *)

O_title == [tagName |-> "title", first |-> "text", data |-> T_Title]
O_J == [tagName |-> "creator", first |-> "text", data |-> T_Jane]
O_K == [tagName |-> "dc:creator", first |-> "text", data |-> T_K]

Book(opf_doc, h) == Archive(TRUE, "ok", "ok", opf_doc, h)

BatchArchives ==
    {Book(<<O_title, O_J>>, NoHtml),                       \* T - J
     Book(<<O_title, O_K>>, NoHtml),                       \* T - K
     Book(<<[O_title EXCEPT !.data = <<"T", "?", "\t", " ">>], O_J>>, NoHtml),
     Book(<<O_title>>, [html |-> "ok", html_doc |-> ExampleDoc]),
     Book(<<O_J>>, NoHtml),                                \* no title
     Book(<<O_title>>, NoHtml),                            \* no author
     Book(<<O_title, O_J>>, [html |-> "unparsable", html_doc |-> NoDoc]),
     Book(<<O_title, [O_J EXCEPT !.first = "element"]>>, NoHtml),
     Archive(FALSE, "missing", "missing", << >>, NoHtml),
     Archive(TRUE, "missing", "missing", << >>, NoHtml),
     Archive(TRUE, "no_rootfile", "missing", << >>, NoHtml),
     Archive(TRUE, "ok", "missing", << >>, NoHtml),
     Archive(TRUE, "ok", "unparsable", << >>, NoHtml)}

InitNames ==
    {<<"a">> \o S_epub,
     <<"b", ".", "E", "P", "U", "B">>,
     <<"c", ".", "t", "x", "t">>,
     <<"T", " ", "-", " ", "J">> \o S_epub}

\* d is a directory of at most max files
IsInitDir(d, max) ==
    \E names \in {N \in SUBSET InitNames : Cardinality(N) \in 1..max} :
        d \in [names -> BatchArchives]

\* the sequences that list each element of S once
Orderings(S) ==
    {q \in [1..Cardinality(S) -> S] : \A i, j \in 1..Cardinality(S) :
                                          i # j => q[i] # q[j]}

Init ==
    /\ IsInitDir(dir, MaxFiles)
    /\ fnames = << >>
    /\ idx = 0
    /\ printed = << >>
    /\ open_handles = {}
    /\ run = 1
    /\ pc = "walk"
    /\ ScanIdle
    /\ MetaIdle

\* os.walk lists the directory (in an order it does not promise) and the
\* comprehension of line 184 keeps the candidates
Walk ==
    /\ pc = "walk"
    /\ fnames' \in Orderings({f \in DOMAIN dir : is_candidate(f)})
    /\ idx' = 1
    /\ pc' = "loop"
    /\ UNCHANGED <<dir, printed, open_handles, run, scanVars, metaVars>>

\* the state after process_file ended with result r: an error that the
\* except clause catches is dropped, any other ends the program
AfterCall(r) ==
    /\ dir' = r.dir
    /\ printed' = r.printed
    /\ open_handles' =
          IF r.opened THEN open_handles \cup {fnames[idx]} ELSE open_handles
    /\ IF r.exc = "none" \/ caught_by_main(r.exc)
       THEN idx' = idx + 1 /\ pc' = "loop"
       ELSE idx' = idx /\ pc' = "crashed"

\* one pass through the loop body of lines 185-188
ProcessNext ==
    /\ pc = "loop"
    /\ idx <= Len(fnames)
    /\ AfterCall(process_file(dir, printed, fnames[idx]))
    /\ UNCHANGED <<fnames, run, scanVars, metaVars>>

\* the listing is exhausted
LoopEnd ==
    /\ pc = "loop"
    /\ idx > Len(fnames)
    /\ pc' = "done"
    /\ UNCHANGED <<dir, fnames, idx, printed, open_handles, run, scanVars, metaVars>>

\* The garbage collector finalizes a ZipFile nothing refers to any more,
\* which closes it; when it does so is up to the interpreter.
Finalize ==
    /\ pc \in {"loop", "done"}
    /\ \E h \in open_handles : open_handles' = open_handles \ {h}
    /\ UNCHANGED <<dir, fnames, idx, printed, run, pc, scanVars, metaVars>>

\* the program is started again over the same directory; the exit of the
\* earlier process closed what it had open
Restart ==
    /\ pc = "done"
    /\ run < MaxRuns
    /\ run' = run + 1
    /\ pc' = "walk"
    /\ fnames' = << >>
    /\ idx' = 0
    /\ printed' = << >>
    /\ open_handles' = {}
    /\ UNCHANGED <<dir, scanVars, metaVars>>

Next == Walk \/ ProcessNext \/ LoopEnd \/ Finalize \/ Restart

Spec == Init /\ [][Next]_vars

---------------------------------------------------------------------------
(* Properties of the walk *)

\* the loop is about to call process_file on fnames[idx]
AtCall == pc = "loop" /\ idx <= Len(fnames)

\* what get_epub_metadata gives for the file the loop is at
CurrentMeta == metadata_of_file(dir, fnames[idx])

\* the name process_file computes for the file the loop is at
CurrentDest == destname_of(CurrentMeta.title, CurrentMeta.authors[1])

\* C5: a file whose extraction fails (whatever the error) keeps its name,
\* nothing is renamed or printed for it, the loop goes on to the next
\* candidate, and the walk ends only when every candidate was handled.
C5_FailureSkipsFileOnly ==
    /\ [](pc # "crashed")
    /\ [](pc = "done" => idx = Len(fnames) + 1)
    /\ [][(AtCall /\ CurrentMeta.exc # "none") =>
            /\ dir' = dir
            /\ printed' = printed
            /\ fnames' = fnames
            /\ pc' = "loop"
            /\ idx' \in {idx, idx + 1}]_vars

\* the first candidate failed with an error other than the one
\* get_epub_metadata raises itself and kept its name; the second was renamed
C5_Witness ==
    /\ pc = "done"
    /\ Len(fnames) = 2
    /\ fnames[1] \in DOMAIN dir
    /\ get_epub_metadata(dir[fnames[1]]).exc \in {"KeyError", "ExpatError"}
    /\ Len(printed) = 1
    /\ printed[1][1] = fnames[2]

\* C6: a file whose metadata has no title (null) or no author (empty list)
\* is never renamed by process_file.
C6_NoTitleOrAuthorSkipped ==
    [][(AtCall /\ CurrentMeta.exc = "none"
          /\ (CurrentMeta.title = None \/ CurrentMeta.authors = << >>)) =>
            (dir' = dir /\ printed' = printed)]_vars

\* C7: a step that changes the directory moves one file, with its content,
\* to the destination computed from its metadata, at which no file existed;
\* every other file stays as it was, so no file is replaced and the number
\* of files does not change.
C7_NoOverwrite ==
    [][dir' # dir =>
          /\ AtCall
          /\ CurrentMeta.exc = "none"
          /\ CurrentMeta.authors # << >>
          /\ ~(CurrentDest \in DOMAIN dir)
          /\ DOMAIN dir' = (DOMAIN dir \ {fnames[idx]}) \cup {CurrentDest}
          /\ dir'[CurrentDest] = dir[fnames[idx]]
          /\ \A n \in DOMAIN dir \ {fnames[idx]} : dir'[n] = dir[n]
          /\ Cardinality(DOMAIN dir') = Cardinality(DOMAIN dir)]_vars

\* the first candidate was handled and kept its name because another file
\* already has the name computed for it
C7_Witness ==
    /\ run = 1
    /\ pc = "loop"
    /\ idx = 2
    /\ printed = << >>
    /\ LET f == fnames[1]
           m == get_epub_metadata(dir[f])
       IN  /\ m.exc = "none"
           /\ m.authors # << >>
           /\ destname_of(m.title, m.authors[1]) # f
           /\ destname_of(m.title, m.authors[1]) \in DOMAIN dir

\* C8: a file that was renamed has the name computed from its own metadata,
\* and process_file on a file that already has that name renames nothing and
\* prints nothing.
C8_CanonicalNameIsFixpoint ==
    /\ [](\A k \in 1..Len(printed) :
             LET m == get_epub_metadata(dir[printed[k][2]])
             IN  /\ printed[k][2] \in DOMAIN dir
                 /\ destname_of(m.title, m.authors[1]) = printed[k][2])
    /\ [][(AtCall /\ CurrentMeta.exc = "none" /\ CurrentMeta.authors # << >>
             /\ CurrentDest = fnames[idx]) =>
               (dir' = dir /\ printed' = printed)]_vars

\* in the second run, a file that the first run renamed was handled again
C8_Witness ==
    /\ run = 2
    /\ pc = "loop"
    /\ idx > 1
    /\ printed = << >>
    /\ LET f == fnames[idx - 1]
           m == metadata_of_file(dir, f)
       IN  /\ f \notin InitNames
           /\ m.exc = "none"
           /\ m.authors # << >>
           /\ destname_of(m.title, m.authors[1]) = f

\* C9: between two calls of process_file, and when the walk has ended, no
\* ZipFile opened by an earlier call is still open.
C9_HandlesReleased ==
    pc \in {"loop", "done"} => open_handles = {}

===========================================================================
